---------------------------- MODULE Spec2Model ----------------------------
(***************************************************************************)
(* Model of who-metrics-ui's RepositoriesTable component                   *)
(* (src/who-metrics-ui/src/components/RepositoriesTable.tsx) and of the    *)
(* "Deploy Next.js site to Pages" workflow (src/unnamed/part_000).         *)
(*                                                                         *)
(* Strings are sequences of one-character strings, so that substring       *)
(* search, lower-casing and collation are computed and not assumed.        *)
(* An optional value (a JavaScript value that may be undefined) is the     *)
(* record [def |-> FALSE] or [def |-> TRUE, val |-> v].                    *)
(***************************************************************************)
EXTENDS Integers, Sequences, FiniteSets, TLC

\* ------------------------------------------------------------------ bounds

\* Longest collection of repository records drawn for data.json.
MaxRepos == 2

\* Largest number typed into the Min / Max header inputs.
MaxBound == 2

\* Most columns in a SortState.
MaxSort == 2

\* Most workflow runs triggered in one behaviour.
MaxRuns == 3

\* ------------------------------------------------------- optional values

Undefined == [def |-> FALSE]

Def(v) == [def |-> TRUE, val |-> v]

Opt(S) == {Undefined} \cup {Def(v) : v \in S}

\* a ?? b
Coalesce(a, b) == IF a.def THEN a.val ELSE b

\* The element of a one-element set.  Only({ F(v) : v \in { e } }) is F of
\* the value of e, e evaluated once.
Only(S) == CHOOSE r \in S : TRUE

\* ---------------------------------------------------------------- strings

EmptyString == << >>

\* The sentinel option value of the License select.
All == <<"a", "l", "l">>

\* String.prototype.toLowerCase, one character.
LowerChar(c) ==
  CASE c = "A" -> "a"
    [] c = "B" -> "b"
    [] c = "L" -> "l"
    [] c = "M" -> "m"
    [] OTHER -> c

toLowerCase(s) == [i \in 1..Len(s) |-> LowerChar(s[i])]

\* Collation rank of a lower-case letter.
CharRank(c) ==
  CASE c = "a" -> 1
    [] c = "b" -> 2
    [] c = "l" -> 12
    [] c = "m" -> 13

\* String.prototype.localeCompare on lower-case letters: -1, 0 or 1; the
\* first differing character decides, a proper prefix sorts first.
RECURSIVE localeCompare(_, _)
localeCompare(s, t) ==
  IF s = << >> /\ t = << >> THEN 0
  ELSE IF s = << >> THEN -1
  ELSE IF t = << >> THEN 1
  ELSE IF CharRank(Head(s)) < CharRank(Head(t)) THEN -1
  ELSE IF CharRank(Head(s)) > CharRank(Head(t)) THEN 1
  ELSE localeCompare(Tail(s), Tail(t))

\* String.prototype.includes: sub occurs in s as a contiguous run.
StringIncludes(s, sub) ==
  \E i \in 0..(Len(s) - Len(sub)) : SubSeq(s, i + 1, i + Len(sub)) = sub

\* Array.prototype.includes.
ArrayIncludes(arr, x) == \E i \in 1..Len(arr) : arr[i] = x

\* ------------------------------------------------------------ the records

\* repositoryName values of the records.
NameValues == { <<"a", "b">>, <<"A", "b">>, <<"b", "a", "b">> }

\* licenseName values of the records; the empty string is "No License".
LicenseValues == { EmptyString, <<"m">> }

\* collaboratorsCount values of the records.
CountValues == {1, 2}

\* The row key of the i-th record of data.json.
Digits == <<"1", "2", "3", "4", "5", "6", "7", "8", "9">>

RepoKey(i) == <<"r", Digits[i]>>

\* Repo: one value of Data['repositories'].
RepoFields ==
  [repositoryName : NameValues, licenseName : LicenseValues,
   collaboratorsCount : CountValues]

WithKey(f, i) ==
  [repoName |-> RepoKey(i), repositoryName |-> f.repositoryName,
   licenseName |-> f.licenseName, collaboratorsCount |-> f.collaboratorsCount]

\* The collections Object.values(Data['repositories']) may be: up to
\* MaxRepos records, row keys unique.
Collections ==
  UNION { { [i \in 1..n |-> WithKey(c[i], i)] : c \in [1..n -> RepoFields] }
          : n \in 0..MaxRepos }

\* ------------------------------------------------------------- the filter

\* Texts typed into the Name header input.
NameTexts ==
  { EmptyString, <<"a">>, <<"a", "b">>, <<"A", "b">>, <<"b", "b">>,
    <<"b", "a", "b">> }

\* <option> values of the License select, in document order: "all", then
\* dropdownOptions('licenseName').
LicenseOptions == << All, EmptyString, <<"m">> >>

RECURSIVE SelectSeq2(_, _)
\* The subsequence of s whose positions are in keep (selectedOptions keeps
\* document order).
SelectSeq2(s, keep) ==
  IF s = << >> THEN << >>
  ELSE LET rest == SelectSeq2(SubSeq(s, 1, Len(s) - 1), keep)
       IN  IF Len(s) \in keep THEN Append(rest, s[Len(s)]) ELSE rest

\* Every value of Array.from(e.target.selectedOptions).map(o => o.value).
LicenseSelections ==
  { SelectSeq2(LicenseOptions, keep) : keep \in SUBSET (1..Len(LicenseOptions)) }

BoundValues == 0..MaxBound

\* Filter: type of globalFilters.
Filters ==
  [repositoryName : Opt(NameTexts),
   licenseName : Opt(LicenseSelections),
   collaboratorsCount : Opt({ <<lo, hi>> : lo \in Opt(BoundValues), hi \in Opt(BoundValues) })]

\* useState<Filter>({ repositoryName: undefined, licenseName: [] })
InitialFilters ==
  [repositoryName |-> Undefined, licenseName |-> Def(<< >>),
   collaboratorsCount |-> Undefined]

\* Variant of NamePasses that folds case on both sides before searching.
NamePassesFoldingCase(f, repo) ==
  IF f.repositoryName.def /\ f.repositoryName.val # EmptyString
  THEN StringIncludes(toLowerCase(repo.repositoryName), toLowerCase(f.repositoryName.val))
  ELSE TRUE

\* globalFilters.repositoryName ? repo.repositoryName.includes(...) : true
NamePasses(f, repo) ==
  IF f.repositoryName.def /\ f.repositoryName.val # EmptyString
  THEN StringIncludes(repo.repositoryName, f.repositoryName.val)
  ELSE TRUE

\* Variant of LicenseLengthTruthy that takes the membership branch for every
\* defined license list, the empty one included.
LicenseLengthAnyList(f) == f.licenseName.def

\* globalFilters.licenseName?.length ?? 0 > 0 parses as
\* globalFilters.licenseName?.length ?? (0 > 0): the length itself when
\* licenseName is defined, false otherwise.  The value is used as the
\* condition of ?: and so by its truthiness.
LicenseLengthTruthy(f) ==
  IF f.licenseName.def THEN Len(f.licenseName.val) # 0 ELSE (0 > 0)

\* Variant of LicensePasses without the 'all' alternative.
LicensePassesNoSentinel(f, repo) ==
  IF LicenseLengthTruthy(f)
  THEN ArrayIncludes(f.licenseName.val, repo.licenseName)
  ELSE TRUE

\* ((cond ? licenseName?.includes(repo.licenseName) : true)
\*   || licenseName?.includes('all'))
LicensePasses(f, repo) ==
  \/ IF LicenseLengthTruthy(f)
     THEN ArrayIncludes(f.licenseName.val, repo.licenseName)
     ELSE TRUE
  \/ f.licenseName.def /\ ArrayIncludes(f.licenseName.val, All)

\* Variant of CollaboratorsPasses with an exclusive upper bound.
CollaboratorsPassesExclusiveMax(f, repo) ==
  IF f.collaboratorsCount.def
  THEN LET cc == f.collaboratorsCount.val
       IN  /\ Coalesce(cc[1], 0) <= repo.collaboratorsCount
           /\ (cc[2].def => repo.collaboratorsCount < cc[2].val)
  ELSE TRUE

\* globalFilters.collaboratorsCount
\*   ? (cc?.[0] ?? 0) <= repo.collaboratorsCount
\*       && repo.collaboratorsCount <= (cc[1] ?? Infinity)
\*   : true
CollaboratorsPasses(f, repo) ==
  IF f.collaboratorsCount.def
  THEN LET cc == f.collaboratorsCount.val
       IN  /\ Coalesce(cc[1], 0) <= repo.collaboratorsCount
           /\ (cc[2].def => repo.collaboratorsCount <= cc[2].val)
  ELSE TRUE

FilterPredicate(f, repo) ==
  NamePasses(f, repo) /\ LicensePasses(f, repo) /\ CollaboratorsPasses(f, repo)

\* Array.prototype.filter: the elements that pass, in order.
RECURSIVE ArrayFilter(_, _)
ArrayFilter(arr, f) ==
  IF arr = << >> THEN << >>
  ELSE LET rest == ArrayFilter(SubSeq(arr, 1, Len(arr) - 1), f)
       IN  IF FilterPredicate(f, arr[Len(arr)])
           THEN Append(rest, arr[Len(arr)]) ELSE rest

filterRepos(inputRepos, f) == ArrayFilter(inputRepos, f)


\* ---------------------------------------------------------------- sorting

\* A value returned by a call that may throw instead.
Ret(v) == [thrown |-> FALSE, value |-> v]

Thrown == [thrown |-> TRUE, value |-> 0]

NumericKeys ==
  { "closedIssuesCount", "collaboratorsCount", "discussionsCount", "forksCount",
    "issuesCount", "mergedPullRequestsCount", "openIssuesCount",
    "openPullRequestsCount", "projectsCount", "watchersCount" }

StringKeys == { "licenseName", "repoName", "repositoryName" }

\* The comparator getComparator returns for a column key: the numeric one,
\* the alphabetical one, or none (the default branch throws).
getComparator(sortColumn) ==
  CASE sortColumn \in NumericKeys -> "number"
    [] sortColumn \in StringKeys -> "string"
    [] OTHER -> "throw"

\* (a, b) => a[sortColumn] === b[sortColumn] ? 0 : a[sortColumn] > b[sortColumn] ? 1 : -1
NumberComparator(sortColumn, a, b) ==
  IF a[sortColumn] = b[sortColumn] THEN 0
  ELSE IF a[sortColumn] > b[sortColumn] THEN 1
  ELSE -1

\* (a, b) => a[sortColumn].toLowerCase().localeCompare(b[sortColumn].toLowerCase())
StringComparator(sortColumn, a, b) ==
  localeCompare(toLowerCase(a[sortColumn]), toLowerCase(b[sortColumn]))

\* Variant of Directed that ignores the direction.
DirectedAscendingOnly(sort, compResult) == compResult

\* sort.direction === 'ASC' ? compResult : -compResult
Directed(sort, compResult) ==
  IF sort.direction = "ASC" THEN compResult ELSE -compResult

\* The callback handed to Array.prototype.sort, from column i on: the first
\* column with a nonzero result decides; getComparator is called per column
\* reached, and throws there.
RECURSIVE SortCallbackFrom(_, _, _, _)
SortCallbackFrom(sortCols, i, a, b) ==
  IF i > Len(sortCols) THEN Ret(0)
  ELSE LET sort == sortCols[i]
           Decide(compResult) ==
             IF compResult # 0 THEN Ret(Directed(sort, compResult))
             ELSE SortCallbackFrom(sortCols, i + 1, a, b)
       IN  CASE getComparator(sort.columnKey) = "number" ->
                  Only({ Decide(v) : v \in { NumberComparator(sort.columnKey, a, b) } })
             [] getComparator(sort.columnKey) = "string" ->
                  Only({ Decide(v) : v \in { StringComparator(sort.columnKey, a, b) } })
             [] OTHER -> Thrown

SortCallback(sortCols, a, b) == SortCallbackFrom(sortCols, 1, a, b)

\* Array.prototype.sort as V8 runs it on fewer than 64 elements: the
\* leading run is counted (and reversed when strictly descending), then the
\* other elements are placed by binary insertion.  A throw of the callback
\* ends the sort.

ReversePrefix(arr, n) ==
  [i \in 1..Len(arr) |-> IF i <= n THEN arr[n + 1 - i] ELSE arr[i]]

\* Last index of the run that starts at 1, the elements up to idx - 1 being
\* in it.
RECURSIVE RunEnd(_, _, _, _)
RunEnd(arr, sortCols, isDescending, idx) ==
  IF idx > Len(arr) THEN Ret(idx - 1)
  ELSE LET Decide(order) ==
             IF order.thrown THEN Thrown
             ELSE IF isDescending /\ order.value >= 0 THEN Ret(idx - 1)
             ELSE IF ~isDescending /\ order.value < 0 THEN Ret(idx - 1)
             ELSE RunEnd(arr, sortCols, isDescending, idx + 1)
       IN  Only({ Decide(v) : v \in { SortCallback(sortCols, arr[idx], arr[idx - 1]) } })

\* CountAndMakeRun: [thrown, arr, runLength].
CountAndMakeRun(arr, sortCols) ==
  LET Made(isDescending, end) ==
        IF end.thrown THEN [thrown |-> TRUE, arr |-> arr, runLength |-> 0]
        ELSE [thrown |-> FALSE,
              arr |-> IF isDescending THEN ReversePrefix(arr, end.value) ELSE arr,
              runLength |-> end.value]
      Counted(order) ==
        IF order.thrown THEN [thrown |-> TRUE, arr |-> arr, runLength |-> 0]
        ELSE LET MadeFrom(end) == Made(order.value < 0, end)
             IN  Only({ MadeFrom(v) : v \in { RunEnd(arr, sortCols, order.value < 0, 3) } })
  IN  Only({ Counted(v) : v \in { SortCallback(sortCols, arr[2], arr[1]) } })

\* The binary search of BinaryInsertionSort for pivot among arr[left..right-1].
RECURSIVE InsertionPoint(_, _, _, _, _)
InsertionPoint(arr, sortCols, pivot, left, right) ==
  IF left >= right THEN Ret(left)
  ELSE LET mid == left + ((right - left) \div 2)
           Decide(order) ==
             IF order.thrown THEN Thrown
             ELSE IF order.value < 0
                  THEN InsertionPoint(arr, sortCols, pivot, left, mid)
                  ELSE InsertionPoint(arr, sortCols, pivot, mid + 1, right)
       IN  Only({ Decide(v) : v \in { SortCallback(sortCols, pivot, arr[mid]) } })

InsertAt(arr, start, left) ==
  SubSeq(arr, 1, left - 1) \o <<arr[start]>> \o SubSeq(arr, left, start - 1)
    \o SubSeq(arr, start + 1, Len(arr))

RECURSIVE BinaryInsertionSort(_, _, _)
BinaryInsertionSort(arr, sortCols, start) ==
  IF start > Len(arr) THEN [thrown |-> FALSE, arr |-> arr]
  ELSE LET Place(at) ==
             IF at.thrown THEN [thrown |-> TRUE, arr |-> arr]
             ELSE BinaryInsertionSort(InsertAt(arr, start, at.value), sortCols, start + 1)
       IN  Only({ Place(v) : v \in { InsertionPoint(arr, sortCols, arr[start], 1, start) } })

\* arr.sort(callback): [thrown, arr].
ArraySort(arr, sortCols) ==
  IF Len(arr) < 2 THEN [thrown |-> FALSE, arr |-> arr]
  ELSE LET Rest(run) ==
             IF run.thrown THEN [thrown |-> TRUE, arr |-> arr]
             ELSE BinaryInsertionSort(run.arr, sortCols, run.runLength + 1)
       IN  Only({ Rest(v) : v \in { CountAndMakeRun(arr, sortCols) } })

\* Variant of sortRepos that sorts inputRepos itself, without the copy.
sortReposInPlace(inputRepos, allRepos, sortCols) ==
  IF Len(sortCols) = 0
  THEN [thrown |-> FALSE, rows |-> allRepos, input |-> inputRepos]
  ELSE LET Result(sortedRows) ==
             [thrown |-> sortedRows.thrown, rows |-> sortedRows.arr,
              input |-> sortedRows.arr]
       IN  Only({ Result(v) : v \in { ArraySort(inputRepos, sortCols) } })

\* sortRepos(inputRepos), reading the module's repos and the sortColumns
\* state: [thrown, rows, input], input being inputRepos after the call (it is
\* the spread copy that Array.prototype.sort reorders).
sortRepos(inputRepos, allRepos, sortCols) ==
  IF Len(sortCols) = 0
  THEN [thrown |-> FALSE, rows |-> allRepos, input |-> inputRepos]
  ELSE LET Result(sortedRows) ==
             [thrown |-> sortedRows.thrown, rows |-> sortedRows.arr,
              input |-> inputRepos]
       IN  Only({ Result(v) : v \in { ArraySort(inputRepos, sortCols) } })

\* Variant of Render that hands the grid the sorted rows unfiltered.
RenderWithoutFilter(allRepos, f, sortCols) ==
  LET Unfiltered(sorted) ==
        IF sorted.thrown
        THEN [status |-> "error", rows |-> << >>, repos |-> sorted.input]
        ELSE [status |-> "ok", rows |-> sorted.rows, repos |-> sorted.input]
  IN  Only({ Unfiltered(v) : v \in { sortRepos(allRepos, allRepos, sortCols) } })

\* rows={filterRepos(sortRepos(repos))}: what one render hands the grid
\* (status "ok") or the error the render ends with (status "error"), and the
\* repos array after the render.
Render(allRepos, f, sortCols) ==
  LET Filtered(sorted) ==
        IF sorted.thrown
        THEN [status |-> "error", rows |-> << >>, repos |-> sorted.input]
        ELSE [status |-> "ok", rows |-> filterRepos(sorted.rows, f),
              repos |-> sorted.input]
  IN  Only({ Filtered(v) : v \in { sortRepos(allRepos, allRepos, sortCols) } })

\* Column keys a SortState is drawn from: the three columns of the grid and
\* a key getComparator does not know.
GridColumns == { "repositoryName", "licenseName", "collaboratorsCount" }

SortKeys == GridColumns \cup { "topics" }

Directions == { "ASC", "DESC" }

\* SortColumn[] values over the keys K: every column at most once.
SortStatesOver(K, maxLen) ==
  UNION { { s \in [1..n -> [columnKey : K, direction : Directions]] :
              \A i, j \in 1..n : i # j => s[i].columnKey # s[j].columnKey }
          : n \in 0..maxLen }

SortStates == SortStatesOver(SortKeys, MaxSort)

\* What a plain click on a header hands onSortColumnsChange: one column of
\* the grid in either direction, or no column.
HeaderSorts == SortStatesOver(GridColumns, 1)

\* ----------------------------------------------------- the header inputs

\* dropdownOptions('licenseName'): the distinct values, first occurrence
\* first.
RECURSIVE Distinct(_)
Distinct(s) ==
  IF s = << >> THEN << >>
  ELSE LET rest == Distinct(SubSeq(s, 1, Len(s) - 1))
       IN  IF ArrayIncludes(rest, s[Len(s)]) THEN rest ELSE Append(rest, s[Len(s)])

dropdownOptions(allRepos) ==
  Distinct([i \in 1..Len(allRepos) |-> allRepos[i].licenseName])

\* The option values of the rendered License select.
RenderedOptions(allRepos) == <<All>> \o dropdownOptions(allRepos)

\* The value of a type="number" input: empty, or a number's digits.
NumberTexts == { EmptyString } \cup { <<Digits[n]>> : n \in 1..MaxBound }

DigitValue(c) ==
  IF c = "0" THEN 0 ELSE CHOOSE n \in 1..Len(Digits) : Digits[n] = c

\* Number(e.target.value).
RECURSIVE Number(_)
Number(text) ==
  IF text = << >> THEN 0
  ELSE 10 * Number(SubSeq(text, 1, Len(text) - 1)) + DigitValue(text[Len(text)])

\* Texts typed into the Name header input of the mounted component.
TypedNames == { EmptyString, <<"a">> }

\* ------------------------------------------------------------------ state

VARIABLES
  repos,          \* Object.values(Data['repositories'])
  globalFilters,  \* useState<Filter>
  sortColumns,    \* useState<SortColumn[]>
  rows,           \* what the last render handed the grid
  event,          \* the last event handled, with its input
  runs            \* the runs of the workflow, oldest first

uiVars == <<repos, globalFilters, sortColumns, rows, event>>

vars == <<repos, globalFilters, sortColumns, rows, event, runs>>

NotRendered == [status |-> "pending", rows |-> << >>]

Mounted == [type |-> "mount", value |-> << >>]

\* A state update followed by the render it causes.
Update(newFilters, newSort, ev) ==
  \E out \in { Render(repos, newFilters, newSort) } :
      /\ globalFilters' = newFilters
      /\ sortColumns' = newSort
      /\ rows' = [status |-> out.status, rows |-> out.rows]
      /\ repos' = out.repos
      /\ event' = ev
      /\ UNCHANGED runs

\* Name input onChange.
NameChange(text) ==
  /\ rows.status = "ok"
  /\ Update([globalFilters EXCEPT !.repositoryName = Def(text)], sortColumns,
            [type |-> "name", value |-> text])

\* License select onChange.
LicenseChange(selectedOptions) ==
  /\ rows.status = "ok"
  /\ Update([globalFilters EXCEPT !.licenseName = Def(selectedOptions)], sortColumns,
            [type |-> "license", value |-> selectedOptions])

\* collaboratorsCountMin onChange.
MinChange(text) ==
  /\ rows.status = "ok"
  /\ Update([globalFilters EXCEPT !.collaboratorsCount =
               Def(<<Def(Number(text)),
                     IF globalFilters.collaboratorsCount.def
                     THEN globalFilters.collaboratorsCount.val[2]
                     ELSE Undefined>>)],
            sortColumns, [type |-> "min", value |-> text])

\* Variant of MaxChange that keeps the stored min, as MinChange keeps the max.
MaxChangeKeepingMin(text) ==
  /\ rows.status = "ok"
  /\ Update([globalFilters EXCEPT !.collaboratorsCount =
               Def(<<IF globalFilters.collaboratorsCount.def
                     THEN globalFilters.collaboratorsCount.val[1]
                     ELSE Undefined,
                     Def(Number(text))>>)],
            sortColumns, [type |-> "max", value |-> text])

\* collaboratorsCountMax onChange.
MaxChange(text) ==
  /\ rows.status = "ok"
  /\ Update([globalFilters EXCEPT !.collaboratorsCount =
               Def(<<Def(0), Def(Number(text))>>)],
            sortColumns, [type |-> "max", value |-> text])

\* onSortColumnsChange={setSortColumns}
SortColumnsChange(newSort) ==
  /\ rows.status = "ok"
  /\ Update(globalFilters, newSort, [type |-> "sort", value |-> newSort])

\* The records the mounted component is driven over: two records that
\* differ in every column, so that each header sort can reorder them and
\* each header filter can tell them apart.  filterRepos and sortRepos are
\* checked over all of Collections under SpecFilter and SpecSort.
MountedFields ==
  { [repositoryName |-> <<"A", "b">>, licenseName |-> <<"m">>, collaboratorsCount |-> 2],
    [repositoryName |-> <<"a", "b">>, licenseName |-> EmptyString, collaboratorsCount |-> 1] }

MountedCollections ==
  { c \in Collections :
      \A i \in 1..Len(c) : \E f \in MountedFields : c[i] = WithKey(f, i) }

\* The component as mounted: the useState initial values and the first render.
Init ==
  /\ repos \in MountedCollections
  /\ globalFilters = InitialFilters
  /\ sortColumns = << >>
  /\ \E out \in { Render(repos, InitialFilters, << >>) } :
       rows = [status |-> out.status, rows |-> out.rows]
  /\ event = Mounted
  /\ runs = << >>

Next ==
  \/ \E text \in TypedNames : NameChange(text)
  \/ \E keep \in SUBSET (1..Len(RenderedOptions(repos))) :
       LicenseChange(SelectSeq2(RenderedOptions(repos), keep))
  \/ \E text \in NumberTexts : MinChange(text)
  \/ \E text \in NumberTexts : MaxChange(text)
  \/ \E newSort \in HeaderSorts : SortColumnsChange(newSort)

Spec == Init /\ [][Next]_vars

\* One render of the component.
RenderStep ==
  /\ rows = NotRendered
  /\ \E out \in { Render(repos, globalFilters, sortColumns) } :
       /\ rows' = [status |-> out.status, rows |-> out.rows]
       /\ repos' = out.repos
  /\ UNCHANGED <<globalFilters, sortColumns, event, runs>>

\* filterRepos over every Filter value, the sort state empty.
InitFilter ==
  /\ repos \in Collections
  /\ globalFilters \in Filters
  /\ sortColumns = << >>
  /\ rows = NotRendered
  /\ event = Mounted
  /\ runs = << >>

SpecFilter == InitFilter /\ [][RenderStep]_vars

\* sortRepos over every SortState, the filters as mounted.
InitSort ==
  /\ repos \in Collections
  /\ globalFilters = InitialFilters
  /\ sortColumns \in SortStates
  /\ rows = NotRendered
  /\ event = Mounted
  /\ runs = << >>

SpecSort == InitSort /\ [][RenderStep]_vars


\* ----------------------------------------------- the deployment workflow

\* on: push (branches main), workflow_dispatch, pull_request
TriggerEvents == { "push", "workflow_dispatch", "pull_request" }

\* concurrency.group: every run of the workflow is in the one group.
ConcurrencyGroup(run) == "pages"

\* Variant of CancelInProgress: the setting turned on.
CancelInProgressOn == TRUE

\* concurrency.cancel-in-progress
CancelInProgress == FALSE

\* jobs.deploy.if: github.event_name != 'pull_request'
DeployIf(run) == run.event # "pull_request"

\* jobs.deploy.needs: build
DeployNeedsMet(run) == run.build = "success"

NewRun(ev) ==
  [event |-> ev, status |-> "pending", build |-> "queued", deploy |-> "queued"]

InGroup(i, g) == ConcurrencyGroup(runs[i]) = g

\* A run is queued.  The run pending in its group is canceled; the run in
\* progress in the group is canceled only under cancel-in-progress.
Trigger(ev) ==
  /\ Len(runs) < MaxRuns
  /\ LET g == ConcurrencyGroup(NewRun(ev))
         Canceled(i) ==
           /\ InGroup(i, g)
           /\ \/ runs[i].status = "pending"
              \/ runs[i].status = "in_progress" /\ CancelInProgress
     IN  runs' = Append([i \in 1..Len(runs) |->
                           IF Canceled(i) THEN [runs[i] EXCEPT !.status = "cancelled"]
                           ELSE runs[i]],
                        NewRun(ev))
  /\ UNCHANGED uiVars

\* The pending run starts once no run of its group is in progress.
StartRun(i) ==
  /\ runs[i].status = "pending"
  /\ \A j \in 1..Len(runs) :
       InGroup(j, ConcurrencyGroup(runs[i])) => runs[j].status # "in_progress"
  /\ runs' = [runs EXCEPT ![i].status = "in_progress"]
  /\ UNCHANGED uiVars

BuildStart(i) ==
  /\ runs[i].status = "in_progress"
  /\ runs[i].build = "queued"
  /\ runs' = [runs EXCEPT ![i].build = "running"]
  /\ UNCHANGED uiVars

BuildFinish(i, result) ==
  /\ runs[i].status = "in_progress"
  /\ runs[i].build = "running"
  /\ runs' = [runs EXCEPT ![i].build = result]
  /\ UNCHANGED uiVars

\* The deploy job starts when the job it needs has succeeded and its
\* condition holds.
DeployStart(i) ==
  /\ runs[i].status = "in_progress"
  /\ runs[i].deploy = "queued"
  /\ DeployNeedsMet(runs[i])
  /\ DeployIf(runs[i])
  /\ runs' = [runs EXCEPT ![i].deploy = "running"]
  /\ UNCHANGED uiVars

\* The deploy job is skipped when the build failed or its condition is false.
DeploySkip(i) ==
  /\ runs[i].status = "in_progress"
  /\ runs[i].deploy = "queued"
  /\ \/ runs[i].build = "failure"
     \/ DeployNeedsMet(runs[i]) /\ ~DeployIf(runs[i])
  /\ runs' = [runs EXCEPT ![i].deploy = "skipped"]
  /\ UNCHANGED uiVars

DeployFinish(i, result) ==
  /\ runs[i].status = "in_progress"
  /\ runs[i].deploy = "running"
  /\ runs' = [runs EXCEPT ![i].deploy = result]
  /\ UNCHANGED uiVars

\* The run ends when its jobs have.
Complete(i) ==
  /\ runs[i].status = "in_progress"
  /\ runs[i].build \in { "success", "failure" }
  /\ runs[i].deploy \in { "success", "failure", "skipped" }
  /\ runs' = [runs EXCEPT ![i].status = "completed"]
  /\ UNCHANGED uiVars

InitDeploy ==
  /\ repos = << >>
  /\ globalFilters = InitialFilters
  /\ sortColumns = << >>
  /\ rows = NotRendered
  /\ event = Mounted
  /\ runs = << >>

NextDeploy ==
  \/ \E ev \in TriggerEvents : Trigger(ev)
  \/ \E i \in 1..Len(runs) : StartRun(i)
  \/ \E i \in 1..Len(runs) : BuildStart(i)
  \/ \E i \in 1..Len(runs), result \in { "success", "failure" } : BuildFinish(i, result)
  \/ \E i \in 1..Len(runs) : DeployStart(i)
  \/ \E i \in 1..Len(runs) : DeploySkip(i)
  \/ \E i \in 1..Len(runs), result \in { "success", "failure" } : DeployFinish(i, result)
  \/ \E i \in 1..Len(runs) : Complete(i)

SpecDeploy == InitDeploy /\ [][NextDeploy]_vars


\* =============================================================== properties

\* A render has handed rows to the grid.
Rendered == rows.status = "ok"

\* The record is among the displayed rows.
Kept(repo) == \E k \in 1..Len(rows.rows) : rows.rows[k].repoName = repo.repoName

Member(x, list) == x \in { list[k] : k \in 1..Len(list) }

NoNameFilter == ~globalFilters.repositoryName.def

NoCollaboratorsFilter == ~globalFilters.collaboratorsCount.def

\* ----------------------------------------------------------------------- C1

\* The license predicate as C1 states it: (a) the set is zero-length and
\* contains "all", or (b) the set contains the record's licenseName.
C1_StatedLicense(f, repo) ==
  /\ f.licenseName.def
  /\ \/ Len(f.licenseName.val) = 0 /\ Member(All, f.licenseName.val)
     \/ Member(repo.licenseName, f.licenseName.val)

\* The license predicate as the code computes it: the set is undefined or
\* zero-length, or contains "all", or contains the record's licenseName.
C1_ActualLicense(f, repo) ==
  \/ ~f.licenseName.def
  \/ Len(f.licenseName.val) = 0
  \/ Member(All, f.licenseName.val)
  \/ Member(repo.licenseName, f.licenseName.val)

\* C1 as stated: a record that passes the name and collaborator dimensions
\* is displayed if and only if (a) the license set is zero-length and
\* contains "all", or (b) the license set contains its licenseName.
C1_LicenseAsStated ==
  Rendered =>
    \A i \in 1..Len(repos) :
      (NamePasses(globalFilters, repos[i]) /\ CollaboratorsPasses(globalFilters, repos[i]))
        => (Kept(repos[i]) <=> C1_StatedLicense(globalFilters, repos[i]))

\* C1 amended: a record that passes the name and collaborator dimensions is
\* displayed if and only if the license set is undefined or zero-length, or
\* contains "all", or contains its licenseName; the membership check
\* decides only for a non-empty set.
C1_LicensePredicate ==
  Rendered =>
    \A i \in 1..Len(repos) :
      (NamePasses(globalFilters, repos[i]) /\ CollaboratorsPasses(globalFilters, repos[i]))
        => (Kept(repos[i]) <=> C1_ActualLicense(globalFilters, repos[i]))

\* An empty license set, a name filter in force, and a record displayed.
C1_Witness ==
  /\ Rendered
  /\ globalFilters.licenseName = Def(<< >>)
  /\ globalFilters.repositoryName = Def(<<"a">>)
  /\ Len(repos) = 2
  /\ rows.rows = <<repos[2]>>

\* ----------------------------------------------------------------------- C2

Supported(columnKey) == columnKey \in NumericKeys \cup StringKeys

\* C2: whenever the SortState holds an unsupported column key, at any
\* position and for a collection of any size, the render ends with the
\* unsupported-sort-column error.
C2_UnsupportedKeyAlwaysThrows ==
  (rows.status # "pending"
     /\ \E i \in 1..Len(sortColumns) : ~Supported(sortColumns[i].columnKey))
    => rows.status = "error"

\* ----------------------------------------------------------------------- C3

C3_InRange(f, repo) ==
  IF f.collaboratorsCount.def
  THEN LET min == IF f.collaboratorsCount.val[1].def
                  THEN f.collaboratorsCount.val[1].val ELSE 0
           max == f.collaboratorsCount.val[2]
       IN  /\ min <= repo.collaboratorsCount
           /\ (max.def => repo.collaboratorsCount <= max.val)
  ELSE TRUE

\* C3: a record that passes the name and license dimensions is displayed if
\* and only if min <= collaboratorsCount <= max, both inclusive, an absent
\* min being 0 and an absent max no bound; with collaboratorsCount unset
\* every such record is displayed.
C3_CollaboratorRange ==
  Rendered =>
    \A i \in 1..Len(repos) :
      (NamePasses(globalFilters, repos[i]) /\ LicensePasses(globalFilters, repos[i]))
        => (Kept(repos[i]) <=> C3_InRange(globalFilters, repos[i]))

\* A range with an absent min and the max 1: the record with count 1 is
\* displayed, the one with count 2 is not.
C3_Witness ==
  /\ Rendered
  /\ NoNameFilter
  /\ globalFilters.licenseName = Def(<< >>)
  /\ globalFilters.collaboratorsCount = Def(<<Undefined, Def(1)>>)
  /\ Len(repos) = 2
  /\ repos[1].collaboratorsCount = 2
  /\ repos[2].collaboratorsCount = 1
  /\ rows.rows = <<repos[2]>>

\* ----------------------------------------------------------------------- C4

\* The order of two records on one column: numbers by value, strings
\* without regard to case.
C4_ColumnOrder(columnKey, a, b) ==
  IF columnKey \in NumericKeys
  THEN (IF a[columnKey] < b[columnKey] THEN -1
        ELSE IF a[columnKey] > b[columnKey] THEN 1 ELSE 0)
  ELSE localeCompare(toLowerCase(a[columnKey]), toLowerCase(b[columnKey]))

\* The lexicographic order of two records by (primary, secondary, ...).
RECURSIVE C4_LexOrder(_, _, _)
C4_LexOrder(sortCols, a, b) ==
  IF sortCols = << >> THEN 0
  ELSE LET c == C4_ColumnOrder(Head(sortCols).columnKey, a, b)
       IN  IF c # 0
           THEN (IF Head(sortCols).direction = "DESC" THEN -c ELSE c)
           ELSE C4_LexOrder(Tail(sortCols), a, b)

C4_InputIndex(repo) == CHOOSE i \in 1..Len(repos) : repos[i].repoName = repo.repoName

\* C4: under a non-empty SortState of supported columns the render succeeds
\* and the rows are the records in lexicographic order of the columns, DESC
\* reversing a column, records equal on every column in input order.
C4_LexicographicSort ==
  (rows.status # "pending" /\ Len(sortColumns) > 0
     /\ \A i \in 1..Len(sortColumns) : Supported(sortColumns[i].columnKey))
    => /\ Rendered
       /\ Len(rows.rows) = Len(repos)
       /\ \A i \in 1..Len(repos) : Kept(repos[i])
       /\ \A i, j \in 1..Len(rows.rows) :
            i < j =>
              LET c == C4_LexOrder(sortColumns, rows.rows[i], rows.rows[j])
              IN  \/ c < 0
                  \/ c = 0 /\ C4_InputIndex(rows.rows[i]) < C4_InputIndex(rows.rows[j])

\* Two columns, the records equal on the first one, the second one putting
\* the later record first.
C4_Witness ==
  /\ Rendered
  /\ Len(sortColumns) = 2
  /\ \A i \in 1..Len(sortColumns) : Supported(sortColumns[i].columnKey)
  /\ sortColumns[2].direction = "DESC"
  /\ Len(repos) = 2
  /\ C4_ColumnOrder(sortColumns[1].columnKey, repos[1], repos[2]) = 0
  /\ repos[1].repositoryName # repos[2].repositoryName
  /\ rows.rows = <<repos[2], repos[1]>>

\* ----------------------------------------------------------------------- C5

\* C5: with an empty SortState the displayed rows are the records that pass
\* the filter, in the order of the collection.
C5_EmptySortKeepsOrder ==
  (Rendered /\ sortColumns = << >>) =>
    LET Passes(repo) == FilterPredicate(globalFilters, repo)
    IN  rows.rows = SelectSeq(repos, Passes)

\* An empty SortState and a filter that drops the first of two records.
C5_Witness ==
  /\ Rendered
  /\ sortColumns = << >>
  /\ globalFilters.licenseName = Def(<< <<"m">> >>)
  /\ Len(repos) = 2
  /\ rows.rows = <<repos[2]>>

\* ----------------------------------------------------------------------- C6

\* C6: the license dimension keeps every record that passes the other two
\* whenever licenseName is undefined, is the empty list, or contains "all"
\* (with any other entries).
C6_LicenseNoConstraint ==
  (Rendered
     /\ \/ ~globalFilters.licenseName.def
        \/ globalFilters.licenseName.val = << >>
        \/ Member(All, globalFilters.licenseName.val))
    => \A i \in 1..Len(repos) :
         (NamePasses(globalFilters, repos[i]) /\ CollaboratorsPasses(globalFilters, repos[i]))
           => Kept(repos[i])

\* "all" selected together with another license, and a record of a third
\* license displayed.
C6_Witness ==
  /\ Rendered
  /\ globalFilters.licenseName = Def(<< All, <<"m">> >>)
  /\ Len(repos) = 1
  /\ repos[1].licenseName = EmptyString
  /\ rows.rows = repos

\* ----------------------------------------------------------------------- C7

\* text occurs in name as a contiguous run, character for character.
C7_Occurs(text, name) ==
  \E k \in 0..(Len(name) - Len(text)) :
    \A j \in 1..Len(text) : name[k + j] = text[j]

\* C7: under a non-empty name filter a record that passes the other two
\* dimensions is displayed if and only if its repositoryName contains the
\* filter text as a contiguous substring, letter case included; under an
\* undefined or empty one every such record is displayed.
C7_NameSubstring ==
  Rendered =>
    \A i \in 1..Len(repos) :
      (LicensePasses(globalFilters, repos[i]) /\ CollaboratorsPasses(globalFilters, repos[i]))
        => (Kept(repos[i]) <=>
              (IF globalFilters.repositoryName.def
                    /\ globalFilters.repositoryName.val # EmptyString
               THEN C7_Occurs(globalFilters.repositoryName.val, repos[i].repositoryName)
               ELSE TRUE))

\* The filter "ab" and the names "Ab" and "ab": only the second is displayed.
C7_Witness ==
  /\ Rendered
  /\ globalFilters.repositoryName = Def(<<"a", "b">>)
  /\ globalFilters.licenseName = Def(<< >>)
  /\ NoCollaboratorsFilter
  /\ Len(repos) = 2
  /\ repos[1].repositoryName = <<"A", "b">>
  /\ repos[2].repositoryName = <<"a", "b">>
  /\ rows.rows = <<repos[2]>>

\* ----------------------------------------------------------------------- C8

\* C8: no interaction changes the record collection; a filter edit leaves
\* the SortState and the other filter dimensions as they were; a sort
\* interaction leaves the FilterState as it was.
C8_Frame ==
  [][ /\ repos' = repos
      /\ event'.type = "name" =>
           /\ sortColumns' = sortColumns
           /\ globalFilters'.licenseName = globalFilters.licenseName
           /\ globalFilters'.collaboratorsCount = globalFilters.collaboratorsCount
      /\ event'.type = "license" =>
           /\ sortColumns' = sortColumns
           /\ globalFilters'.repositoryName = globalFilters.repositoryName
           /\ globalFilters'.collaboratorsCount = globalFilters.collaboratorsCount
      /\ event'.type \in { "min", "max" } =>
           /\ sortColumns' = sortColumns
           /\ globalFilters'.repositoryName = globalFilters.repositoryName
           /\ globalFilters'.licenseName = globalFilters.licenseName
      /\ event'.type = "sort" => globalFilters' = globalFilters
    ]_vars

\* A sort interaction after which the rows are the two records in the
\* opposite order.
C8_Witness ==
  /\ Rendered
  /\ event.type = "sort"
  /\ Len(repos) = 2
  /\ rows.rows = <<repos[2], repos[1]>>

\* ----------------------------------------------------------------------- C9

C9_InProgress == { i \in 1..Len(runs) : runs[i].status = "in_progress" }

\* C9: at most one run of the group is in progress; a run in progress is
\* never canceled when a later run is queued; the deploy job runs only in
\* a run that is not for a pull request and whose build job has succeeded.
C9_Deployment ==
  /\ [](Cardinality(C9_InProgress) <= 1)
  /\ [](\A i \in 1..Len(runs) :
          runs[i].deploy \in { "running", "success", "failure" }
            => runs[i].event # "pull_request" /\ runs[i].build = "success")
  /\ [][ \A i \in 1..Len(runs) :
           (runs[i].status = "in_progress" /\ Len(runs') > Len(runs))
             => runs'[i].status = "in_progress" ]_vars

\* A run deploying while a later run was canceled in the queue and the
\* latest one waits.
C9_Witness ==
  /\ Len(runs) = 3
  /\ runs[1].status = "in_progress"
  /\ runs[1].deploy = "running"
  /\ runs[2].status = "cancelled"
  /\ runs[3].status = "pending"

\* ---------------------------------------------------------------------- C10

\* The number a header input's text stands for.
C10_Typed(text) ==
  IF text = EmptyString THEN 0
  ELSE CHOOSE n \in 1..Len(Digits) : <<Digits[n]>> = text

\* C10: a Min edit stores [Number(newMin), previous max]; a Max edit stores
\* [0, Number(newMax)]; collaboratorsCount, once set, stays set; a cleared
\* input stores 0.
C10_RangeEdits ==
  [][ /\ event'.type = "min" =>
           globalFilters'.collaboratorsCount =
             Def(<<Def(C10_Typed(event'.value)),
                   IF globalFilters.collaboratorsCount.def
                   THEN globalFilters.collaboratorsCount.val[2]
                   ELSE Undefined>>)
      /\ event'.type = "max" =>
           globalFilters'.collaboratorsCount =
             Def(<<Def(0), Def(C10_Typed(event'.value))>>)
      /\ globalFilters.collaboratorsCount.def => globalFilters'.collaboratorsCount.def
    ]_vars

\* The Min input cleared with the max 2 stored: the range is [0, 2].
C10_Witness ==
  /\ event = [type |-> "min", value |-> EmptyString]
  /\ globalFilters.collaboratorsCount = Def(<<Def(0), Def(2)>>)

=============================================================================
